---- MODULE Spec2Model ----
(***************************************************************************)
(* A model of uccaas_csv_generator.py: one run of the script on one        *)
(* uploaded workbook.  The workbook is the input, fixed in Init; the run    *)
(* resolves the three sheets, reads the context cells, builds the Business  *)
(* Group rows (Number Blocks), walks the user rows to build Subscriber      *)
(* records (with the cached rate-centre lookup), then the Managed Device,   *)
(* Intercom Code Range, MLHG and MLHG Pilot sections, and finally writes    *)
(* the single combined CSV buffer.                                          *)
(*                                                                          *)
(* The workbook holds the cells of the file.  The script reads them twice:  *)
(* through openpyxl, which gives None for an empty cell and the text of a   *)
(* text cell, and through pandas.read_excel, which gives NaN for an empty   *)
(* cell and for a cell whose text is one of pandas' NA markers.  A          *)
(* DataFrame has the shape of the used part of its sheet, and a positional  *)
(* read outside it raises IndexError.                                       *)
(*                                                                          *)
(* Text is a TLA+ string over ASCII and the Latin-1 whitespace, and the     *)
(* Python string functions (strip, lower, upper, split, re.sub) are         *)
(* computed character by character.  Cells hold text or nothing: numeric    *)
(* and date cells are not modelled, and every used column of "User          *)
(* details" is taken to carry a title, so that read_excel keeps its text.   *)
(*                                                                          *)
(* The cache of lookup_rc_lata is the process-wide store of st.cache_data:  *)
(* it outlives a run, its entries expire, and other sessions of the app     *)
(* write to it while this run waits for an answer.                          *)
(*                                                                          *)
(* Columns that are only copied into a record (calling number, email,       *)
(* timezone, the BG LCC defaults) and the Managed Device timestamp are left  *)
(* out of the records; every field a decision depends on is kept.  Each      *)
(* record carries src, the row it was built from.                            *)
(***************************************************************************)
EXTENDS Integers, Sequences, FiniteSets, TLC

\* ------------------------------------------------------------------ cells

\* A value is None (openpyxl: empty cell), NaN (pandas: missing) or text.
None == [kind |-> "None", s |-> ""]

NaN == [kind |-> "NaN", s |-> ""]

Txt(s) == [kind |-> "str", s |-> s]

\* pd.isna(v): true of NaN and of None.
isna(v) == v.kind # "str"

\* str(v): NaN prints as "nan", None as "None".
str(v) == IF v.kind = "NaN" THEN "nan" ELSE IF v.kind = "None" THEN "None" ELSE v.s

\* Python truthiness: None and "" are falsy (a float NaN is truthy).
truthy(v) == v.kind = "NaN" \/ (v.kind = "str" /\ v.s # "")

\* The texts read_excel turns into NaN by default (pandas' STR_NA_VALUES) before
\* pandas 2.0, and from pandas 2.0 on, where "None" joined the list.
STR_NA_VALUES_1 ==
    {"", "#N/A", "#N/A N/A", "#NA", "-1.#IND", "-1.#QNAN", "-NaN", "-nan", "1.#IND",
     "1.#QNAN", "<NA>", "N/A", "NA", "NULL", "NaN", "n/a", "nan", "null"}

STR_NA_VALUES_2 == STR_NA_VALUES_1 \cup {"None"}

\* The DataFrame value read_excel gives for a sheet cell c.
read_excel_value(c, na) == IF c.kind = "None" \/ c.s \in na THEN NaN ELSE c

\* A cell read_excel counts as unused when it sizes the frame.
empty_cell(c) == c.kind = "None" \/ c.s = ""

\* ---------------------------------------------------------------- strings

UpperChars == "ABCDEFGHIJKLMNOPQRSTUVWXYZ"
LowerChars == "abcdefghijklmnopqrstuvwxyz"
DigitChars == "0123456789"

CharAt(s, i) == SubSeq(s, i, i)

\* The whitespace of str.strip(), str.split() and \s: space, tab, newline,
\* carriage return, form feed, vertical tab, the separators 1C..1F, NEL and the
\* no-break space.
Whitespace ==
    {" ", "\t", "\n", "\r", "\f", "", "", "", "", "", "", " "}

IsSpace(c) == c \in Whitespace

Digits == {CharAt(DigitChars, i) : i \in 1..Len(DigitChars)}

IsDigit(c) == c \in Digits

\* c.lower() / c.upper() of one character, as tables over the letters.
to_lower ==
    [c \in {CharAt(UpperChars, i) : i \in 1..Len(UpperChars)} |->
        CharAt(LowerChars, CHOOSE i \in 1..Len(UpperChars) : CharAt(UpperChars, i) = c)]

to_upper ==
    [c \in {CharAt(LowerChars, i) : i \in 1..Len(LowerChars)} |->
        CharAt(UpperChars, CHOOSE i \in 1..Len(LowerChars) : CharAt(LowerChars, i) = c)]

lower_char(c) == IF c \in DOMAIN to_lower THEN to_lower[c] ELSE c

upper_char(c) == IF c \in DOMAIN to_upper THEN to_upper[c] ELSE c

RECURSIVE lower(_)
lower(s) == IF s = "" THEN "" ELSE lower_char(Head(s)) \o lower(Tail(s))

RECURSIVE upper(_)
upper(s) == IF s = "" THEN "" ELSE upper_char(Head(s)) \o upper(Tail(s))

RECURSIVE lstrip(_)
lstrip(s) == IF s # "" /\ IsSpace(Head(s)) THEN lstrip(Tail(s)) ELSE s

RECURSIVE rstrip(_)
rstrip(s) ==
    IF s # "" /\ IsSpace(CharAt(s, Len(s)))
    THEN rstrip(SubSeq(s, 1, Len(s) - 1))
    ELSE s

\* str.strip()
strip(s) == rstrip(lstrip(s))

\* "".join(s.split()): every whitespace character removed.
RECURSIVE join_split(_)
join_split(s) ==
    IF s = "" THEN ""
    ELSE IF IsSpace(Head(s)) THEN join_split(Tail(s))
    ELSE Head(s) \o join_split(Tail(s))

\* re.sub(r"\s+", " ", s): every run of whitespace becomes one space.
RECURSIVE collapse_ws(_)
collapse_ws(s) ==
    IF s = "" THEN ""
    ELSE IF IsSpace(Head(s))
         THEN " " \o collapse_ws(lstrip(s))
         ELSE Head(s) \o collapse_ws(Tail(s))

\* re.sub(r"\D", "", s)
RECURSIVE keep_digits(_)
keep_digits(s) ==
    IF s = "" THEN ""
    ELSE IF IsDigit(Head(s)) THEN Head(s) \o keep_digits(Tail(s))
    ELSE keep_digits(Tail(s))

\* ---------------------------------------------------------------- helpers

\* _norm(name)
_norm(name) == join_split(lower(name))

\* get_sheet(wb, wanted): the index of the first sheet whose normalized name
\* equals the normalized wanted name, 0 when there is none (KeyError).
get_sheet(sheetnames, wanted) ==
    LET wanted_norm == _norm(wanted)
        hits == {k \in 1..Len(sheetnames) : _norm(sheetnames[k]) = wanted_norm}
    IN  IF hits = {} THEN 0 ELSE CHOOSE k \in hits : \A j \in hits : k <= j

\* The mapping table of convert_template, as (label, suffix) pairs.
mapping ==
    << <<"UCaaS|Link Basic Auto-Attendant", "_AA_Easy">>,
       <<"UCaaS|Link Premium Auto-Attendant", "_AA_Premium">>,
       <<"UCaaS|Link Lite", "_Lite">>,
       <<"UCaaS|Link Standard", "_STD">>,
       <<"UCaaS|Link Complete", "_Complete">>,
       <<"UCaaS|Link Complete (HIPPA)", "Complete_HIPPA">>,
       <<"UCaaS|Link Complete (No Voicemail)", "_Complete_NoVM">>,
       <<"UCaaS|Link Complete ContactCenter Agent", "_Complete">>,
       <<"UCaaS|Link Complete ContactCenter Manager", "_Complete">> >>

\* convert_template without the strip() of the label.
convert_template_no_strip(template_name, region) ==
    IF isna(template_name) THEN ""
    ELSE LET s == str(template_name)
         IN  IF \E k \in 1..Len(mapping) : mapping[k][1] = s
             THEN region \o mapping[CHOOSE k \in 1..Len(mapping) : mapping[k][1] = s][2]
             ELSE ""

\* convert_template(template_name, region)
convert_template(template_name, region) ==
    IF isna(template_name) THEN ""
    ELSE LET s == strip(str(template_name))
         IN  IF \E k \in 1..Len(mapping) : mapping[k][1] = s
             THEN region \o mapping[CHOOSE k \in 1..Len(mapping) : mapping[k][1] = s][2]
             ELSE ""

\* only_digits(s)
only_digits(s) == keep_digits(s)

\* npanxx_from_number(phone): <<npa, nxx>>, both "" when fewer than 6 digits
\* remain (the code's None, None).
npanxx_from_number(phone) ==
    LET d0 == only_digits(phone)
        d  == IF Len(d0) = 11 /\ Head(d0) = "1" THEN Tail(d0) ELSE d0
    IN  IF Len(d) >= 6 THEN <<SubSeq(d, 1, 3), SubSeq(d, 4, 6)>> ELSE <<"", "">>

\* A returned value, or an exception that escapes the function.
Ret(v) == [exc |-> FALSE, value |-> v]

Raised == [exc |-> TRUE, value |-> ""]

\* normalize_rc(s): "" for None; a NaN has no strip() and raises AttributeError.
normalize_rc(s) ==
    IF s.kind = "None" THEN Ret("")
    ELSE IF s.kind = "NaN" THEN Raised
    ELSE Ret(collapse_ws(upper(strip(s.s))))

O_IDX == 14
N_IDX == 13

\* The cell of "Engineering" that holds the region code, C4.
C_IDX == 2
C4_ROW == 4

\* The 0-based column of each modelled cell of an "Engineering" row.
eng_cols == [C |-> C_IDX, N |-> N_IDX, O |-> O_IDX]

Max(S) == CHOOSE x \in S : \A y \in S : y <= x

\* The width of a sheet row: one past its last used column, 0 when it has none.
used_width(cols, row) ==
    Max({0} \cup {cols[f] + 1 : f \in {g \in DOMAIN cols : ~empty_cell(row[g])}})

BlankEng == [C |-> None, N |-> None, O |-> None]

\* The cells of the "Engineering" sheet row r (1-based, as in the sheet).
eng_row(eng, r) == IF r \in DOMAIN eng THEN eng[r] ELSE BlankEng

\* eng_df = pd.read_excel(sheet_name=eng_ws.title, header=None, dtype=str): the
\* frame spans the sheet from A1 to its last used row and column.
read_excel_eng(eng, na) ==
    [nrows |-> Max({0} \cup {r \in DOMAIN eng : used_width(eng_cols, eng[r]) > 0}),
     ncols |-> Max({0} \cup {used_width(eng_cols, eng[r]) : r \in DOMAIN eng}),
     sheet |-> eng,
     na    |-> na]

\* eng_df.iat[r, col] for the 0-based row r and the column of field f.
iat(eng_df, r, f) == read_excel_value(eng_row(eng_df.sheet, r + 1)[f], eng_df.na)

\* The scan of eng_value_for_rate_center from the 0-based row r on.
RECURSIVE eng_scan(_, _, _)
eng_scan(eng_df, wanted, r) ==
    IF r >= eng_df.nrows THEN Ret("")
    ELSE LET val_o == normalize_rc(IF O_IDX < eng_df.ncols THEN iat(eng_df, r, "O") ELSE Txt(""))
         IN  IF val_o.exc THEN Raised
             ELSE IF val_o.value # "" /\ val_o.value = wanted
             THEN LET val_n == IF N_IDX < eng_df.ncols THEN iat(eng_df, r, "N") ELSE Txt("")
                  IN  Ret(IF isna(val_n) \/ lower(str(val_n)) = "nan" THEN "" ELSE str(val_n))
             ELSE eng_scan(eng_df, wanted, r + 1)

\* eng_value_for_rate_center(eng_df, rate_centre)
eng_value_for_rate_center(eng_df, rate_centre) ==
    IF eng_df.nrows = 0 \/ eng_df.ncols = 0 THEN Ret("")
    ELSE LET wanted == normalize_rc(rate_centre)
         IN  IF wanted.exc THEN Raised ELSE eng_scan(eng_df, wanted.value, 0)

\* One tag of the XML answer: None when the tag is absent, else its stripped text.
tag_text(tag) == IF tag.kind = "None" THEN None ELSE Txt(strip(tag.s))

\* x or None
or_none(v) == IF truthy(v) THEN v ELSE None

\* The body of lookup_rc_lata(npa, nxx) on a network outcome resp: any failure
\* (resp.ok false) is caught and gives (None, None).
lookup_rc_lata(npa, nxx, resp) ==
    IF npa = "" \/ nxx = "" THEN <<None, None>>
    ELSE IF ~resp.ok THEN <<None, None>>
    ELSE <<or_none(tag_text(resp.rc)), or_none(tag_text(resp.lata))>>

\* ------------------------------------------------------------- the workbook

COL_NAME == 0
COL_PHONE == 1
COL_EXT == 4
COL_ACCT == 7
COL_DEPT == 8
COL_TEMPLATE == 12
COL_MAC == 13
COL_MLHG == 14
COL_LCC15 == 17

START_ROW == 8

\* The sheet row of the customer name, B3.
B3_ROW == 3

\* The worksheet ranges B9:B100 / I9:I100 as DataFrame row indexes 8..99.
POOL_LAST_ROW == 100

\* The Call flow window, rows 17..27 (range(17, 28)).
MLHG_FIRST_ROW == 17
MLHG_LAST_ROW == 27

\* The 0-based column of each modelled cell of a "User details" row.
user_cols ==
    [name |-> COL_NAME, phone |-> COL_PHONE, ext |-> COL_EXT, account_type |-> COL_ACCT,
     department |-> COL_DEPT, template |-> COL_TEMPLATE, mac |-> COL_MAC,
     mlhg |-> COL_MLHG, lcc15 |-> COL_LCC15]

\* The cell of a "User details" row that sits in column col.
col_field ==
    [col \in {user_cols[f] : f \in DOMAIN user_cols} |->
        CHOOSE f \in DOMAIN user_cols : user_cols[f] = col]

\* A user row of the "User details" sheet that holds nothing.
BlankRow ==
    [name |-> None, phone |-> None, ext |-> None, account_type |-> None,
     department |-> None, template |-> None, mac |-> None, mlhg |-> None, lcc15 |-> None]

\* A "Call flow" row that holds nothing.
BlankHunt == [B |-> None, C |-> None, D |-> None, H |-> None]

\* The cells of the "User details" row at DataFrame index i (sheet row i + 1).
ws_row(users, i) == IF i \in DOMAIN users THEN users[i] ELSE BlankRow

\* user_df.shape[1] for user_df = pd.read_excel(sheet_name=user_details_ws.title,
\* header=None): the frame is as wide as the widest used row of the sheet (B3,
\* the title row 8, the user rows).
user_df_ncols(book) ==
    Max({book.head_width}
        \cup (IF empty_cell(book.customer) THEN {} ELSE {COL_PHONE + 1})
        \cup {used_width(user_cols, book.users[i]) : i \in DOMAIN book.users})

\* len(user_df): the frame runs from row 1 to the last used row of the sheet,
\* blank rows included, whatever its width.
user_df_len(book) ==
    Max({0}
        \cup (IF empty_cell(book.customer) THEN {} ELSE {B3_ROW})
        \cup (IF book.head_width = 0 THEN {} ELSE {START_ROW})
        \cup {i + 1 : i \in {j \in DOMAIN book.users : used_width(user_cols, book.users[j]) > 0}})

\* user_df.iloc[i, col] for a column inside the frame.
iloc(users, na, i, col) == read_excel_value(ws_row(users, i)[col_field[col]], na)

\* A loop over range(START_ROW, len(user_df)) whose body reads the columns cols
\* raises IndexError in its first iteration when one of them is outside the frame.
loop_raises(book, cols) ==
    /\ START_ROW < user_df_len(book)
    /\ \E col \in cols : col >= user_df_ncols(book)

\* call_flow_ws[f"B{r}"] ...: the Call flow row r.
hunt_row(hunts, r) == IF r \in DOMAIN hunts THEN hunts[r] ELSE BlankHunt

\* dict.fromkeys(seq): duplicates dropped, first occurrence kept.
RECURSIVE fromkeys(_, _)
fromkeys(seq, seen) ==
    IF seq = <<>> THEN <<>>
    ELSE IF Head(seq) \in seen THEN fromkeys(Tail(seq), seen)
    ELSE <<Head(seq)>> \o fromkeys(Tail(seq), seen \cup {Head(seq)})

\* for cell in user_details_ws["B9":"B100"]: if c.value: append(str(c.value).strip())
RECURSIVE pool_phones(_, _)
pool_phones(users, i) ==
    IF i >= POOL_LAST_ROW THEN <<>>
    ELSE LET v == ws_row(users, i).phone
         IN  (IF truthy(v) THEN <<strip(str(v))>> ELSE <<>>) \o pool_phones(users, i + 1)

\* for cell in call_flow_ws["D17":"D27"]: if c.value: append(str(c.value).strip())
RECURSIVE pool_pilots(_, _)
pool_pilots(hunts, r) ==
    IF r > MLHG_LAST_ROW THEN <<>>
    ELSE LET v == hunt_row(hunts, r).D
         IN  (IF truthy(v) THEN <<strip(str(v))>> ELSE <<>>) \o pool_pilots(hunts, r + 1)

\* The number pool without the dict.fromkeys pass.
collect_numbers_keep_dups(users, hunts) ==
    SelectSeq(pool_phones(users, START_ROW) \o pool_pilots(hunts, MLHG_FIRST_ROW),
              LAMBDA n : n # "")

\* numbers = [n for n in dict.fromkeys(numbers) if n]
collect_numbers(users, hunts) ==
    SelectSeq(fromkeys(pool_phones(users, START_ROW) \o pool_pilots(hunts, MLHG_FIRST_ROW), {}),
              LAMBDA n : n # "")

\* The department pool I9:I100, unique in first-occurrence order.
RECURSIVE pool_departments(_, _)
pool_departments(users, i) ==
    IF i >= POOL_LAST_ROW THEN <<>>
    ELSE LET v == ws_row(users, i).department
         IN  (IF truthy(v) THEN <<strip(str(v))>> ELSE <<>>) \o pool_departments(users, i + 1)

collect_departments(users) ==
    SelectSeq(fromkeys(pool_departments(users, START_ROW), {}), LAMBDA d : d # "")

\* ---------------------------------------------------------- record builders

\* The eligibility filter of the Subscriber loop (the `continue`).
subscriber_skipped(phone, template_raw) ==
    isna(phone)
    \/ strip(str(template_raw)) \in {"None", "Reserve Number", "None | Reserve Number"}

\* is_aa = template in [f"{region}_AA_Easy", f"{region}_AA_Premium"]
is_aa_only_easy(template, region) == template = region \o "_AA_Easy"

is_aa(template, region) ==
    template \in {region \o "_AA_Easy", region \o "_AA_Premium"}

\* The Subscriber record of the row at index i, given the lookup result and lcc1.
\* src is the row the record was built from, rc the rate centre its lookup gave.
subscriber_record(users, na, i, region, result, lcc1) ==
    LET name         == iloc(users, na, i, COL_NAME)
        phone        == iloc(users, na, i, COL_PHONE)
        account_type == iloc(users, na, i, COL_ACCT)
        department   == iloc(users, na, i, COL_DEPT)
        lcc15_cell   == iloc(users, na, i, COL_LCC15)
        template     == convert_template(iloc(users, na, i, COL_TEMPLATE), region)
        aa           == is_aa(template, region)
        nm           == IF isna(name) THEN "" ELSE str(name)
        acct         == IF str(account_type) \in {"Location Admin", "Company Admin"}
                        THEN "Administrator" ELSE "Normal"
        dept         == IF isna(department) THEN "" ELSE str(department)
    IN  [src |-> i,
         rc |-> IF truthy(result[1]) THEN result[1].s ELSE "",
         phone |-> str(phone),
         template |-> template,
         name_cfs |-> nm,
         name_eas |-> nm,
         acct_cfs |-> acct,
         acct_eas |-> acct,
         line_state_monitor |-> IF aa THEN "" ELSE "TRUE",
         calling_name_delivery |-> IF aa THEN "" ELSE nm,
         charge_number |-> str(phone),
         emergency_number |-> str(phone),
         dept_cfs |-> dept,
         dept_eas |-> dept,
         intra_bg_calls |-> IF aa THEN "" ELSE "TRUE",
         lcc1 |-> lcc1,
         lcc2 |-> IF truthy(result[2]) THEN result[2].s ELSE "",
         lcc3 |-> npanxx_from_number(str(phone))[1],
         lcc15 |-> IF isna(lcc15_cell) THEN "" ELSE strip(str(lcc15_cell))]

\* The Managed Device loop from index i on.
RECURSIVE managed_devices(_, _, _, _)
managed_devices(users, na, i, n) ==
    IF i >= n THEN <<>>
    ELSE LET phone == iloc(users, na, i, COL_PHONE)
             mac   == iloc(users, na, i, COL_MAC)
         IN  (IF isna(phone) \/ isna(mac) \/ strip(str(mac)) = "" THEN <<>>
              ELSE <<[src |-> i, mac |-> str(mac), assigned |-> "TRUE", phone |-> str(phone)]>>)
             \o managed_devices(users, na, i + 1, n)

\* The Intercom Code Range loop from index i on.
RECURSIVE intercom_ranges(_, _, _, _)
intercom_ranges(users, na, i, n) ==
    IF i >= n THEN <<>>
    ELSE LET phone == iloc(users, na, i, COL_PHONE)
             ext   == iloc(users, na, i, COL_EXT)
         IN  (IF isna(phone) \/ isna(ext) \/ strip(str(ext)) = "" THEN <<>>
              ELSE <<[src |-> i, first_code |-> str(ext), last_code |-> str(ext),
                      phone |-> str(phone)]>>)
             \o intercom_ranges(users, na, i + 1, n)

\* The member tokens of the group named mlg_name, from index i on.
RECURSIVE mlhg_members(_, _, _, _, _)
mlhg_members(users, na, mlg_name, i, n) ==
    IF i >= n THEN <<>>
    ELSE LET num == iloc(users, na, i, COL_PHONE)
         IN  (IF strip(str(iloc(users, na, i, COL_MLHG))) = strip(str(mlg_name)) /\ ~isna(num)
              THEN <<"{'" \o str(num) \o "';'FALSE'}">>
              ELSE <<>>)
             \o mlhg_members(users, na, mlg_name, i + 1, n)

\* sep.join(seq)
RECURSIVE join(_, _)
join(sep, seq) ==
    IF seq = <<>> THEN ""
    ELSE IF Len(seq) = 1 THEN seq[1]
    ELSE seq[1] \o sep \o join(sep, Tail(seq))

\* The MLHG loop from Call flow row r on; n is len(user_df).
RECURSIVE mlhg_records(_, _, _, _, _)
mlhg_records(users, na, hunts, r, n) ==
    IF r > MLHG_LAST_ROW THEN <<>>
    ELSE LET mlg_name == hunt_row(hunts, r).B
             dist_alg == hunt_row(hunts, r).C
             clean    == IF isna(dist_alg) THEN "" ELSE strip(str(dist_alg))
         IN  (IF ~truthy(mlg_name) THEN <<>>
              ELSE <<[src |-> r,
                      name |-> str(mlg_name),
                      members |-> join(";", mlhg_members(users, na, mlg_name, START_ROW, n)),
                      dist_alg |-> IF clean = "Ring All" THEN "Ring all" ELSE clean,
                      hunt_on_no_answer |-> "FALSE"]>>)
             \o mlhg_records(users, na, hunts, r + 1, n)

\* The MLHG Pilot loop from Call flow row r on.
RECURSIVE pilot_records(_, _, _)
pilot_records(hunts, region, r) ==
    IF r > MLHG_LAST_ROW THEN <<>>
    ELSE LET mlg_name     == hunt_row(hunts, r).B
             phone_number == hunt_row(hunts, r).D
             pilot_vm     == hunt_row(hunts, r).H
         IN  (IF ~truthy(mlg_name) \/ ~truthy(phone_number) THEN <<>>
              ELSE <<[src |-> r,
                      name |-> str(mlg_name),
                      phone |-> str(phone_number),
                      template |-> IF lower(strip(str(pilot_vm))) = "yes"
                                   THEN region \o "_MLHG_Pilot"
                                   ELSE region \o "_MLHG_Pilot_NoVM",
                      display |-> str(mlg_name) \o " Pilot"]>>)
             \o pilot_records(hunts, region, r + 1)

\* ------------------------------------------------------------------ state

VARIABLES
    wb,             \* the uploaded workbook (the input; never changes)
    na_values,      \* the NA markers of the installed pandas (never changes)
    pc,             \* where the run is
    err,            \* the KeyError shown by st.error, NoError when none
    raised,         \* the exception that ended the script uncaught, "" when none
    region,         \* region code read from Engineering!C4
    customer_name,  \* User details!B3
    numbers,        \* the Number Block pool
    departments,    \* the Department pool
    sub_i,          \* the Subscriber loop's row index
    subs,           \* Subscriber records
    cache,          \* st.cache_data of lookup_rc_lata: (npa, nxx) -> (rc, lata)
    stale,          \* the keys whose cache entry was written before this run
    pending,        \* the (npa, nxx) of the call this run waits on, NoCall when none
    net_calls,      \* the requests.get calls this run issued
    devices,        \* Managed Device records
    intercoms,      \* Intercom Code Range records
    mlhgs,          \* MLHG records
    pilots,         \* MLHG Pilot Number records
    output          \* the combined CSV buffer, as its sections in order

vars == <<wb, na_values, pc, err, raised, region, customer_name, numbers, departments,
          sub_i, subs, cache, stale, pending, net_calls, devices, intercoms, mlhgs,
          pilots, output>>

input == <<wb, na_values>>

lookups == <<cache, stale, pending, net_calls>>

built == <<region, customer_name, numbers, departments, sub_i, subs,
           devices, intercoms, mlhgs, pilots, output>>

NoError == [wanted |-> "", available |-> <<>>]

NoCall == <<>>

REQUIRED_SHEETS_CommandLink == <<"User details", "CommandLink", "Call flow">>

\* The sheets main() resolves, in the order of its get_sheet calls.
REQUIRED_SHEETS == <<"User details", "Engineering", "Call flow">>

\* The first required sheet that get_sheet does not find, 0 when all resolve.
first_missing(sheetnames) ==
    LET missing == {k \in 1..Len(REQUIRED_SHEETS) : get_sheet(sheetnames, REQUIRED_SHEETS[k]) = 0}
    IN  IF missing = {} THEN 0 ELSE CHOOSE k \in missing : \A j \in missing : k <= j

\* The three get_sheet calls succeed.
ResolveSheets ==
    /\ pc = "resolve"
    /\ first_missing(wb.sheetnames) = 0
    /\ pc' = "context"
    /\ UNCHANGED <<input, err, raised, lookups, built>>

\* A get_sheet call raises KeyError: st.error(str(e)); st.stop().
SheetNotFound ==
    /\ pc = "resolve"
    /\ first_missing(wb.sheetnames) # 0
    /\ err' = [wanted |-> REQUIRED_SHEETS[first_missing(wb.sheetnames)],
               available |-> wb.sheetnames]
    /\ pc' = "aborted"
    /\ UNCHANGED <<input, raised, lookups, built>>

\* customer_name = B3; region = (C4 or "").strip()
ReadContext ==
    /\ pc = "context"
    /\ customer_name' = wb.customer
    /\ region' = LET c4 == eng_row(wb.eng, C4_ROW).C
                 IN  strip(IF truthy(c4) THEN c4.s ELSE "")
    /\ pc' = "bg"
    /\ UNCHANGED <<input, err, raised, lookups, numbers, departments, sub_i, subs,
                   devices, intercoms, mlhgs, pilots, output>>

\* The number and department pools and the BG rows built from them.
BuildBG ==
    /\ pc = "bg"
    /\ numbers' = collect_numbers(wb.users, wb.hunts)
    /\ departments' = collect_departments(wb.users)
    /\ sub_i' = START_ROW
    /\ pc' = "subs"
    /\ UNCHANGED <<input, err, raised, lookups, region, customer_name, subs,
                   devices, intercoms, mlhgs, pilots, output>>

\* The outcomes of one HTTP call: a failure (error, timeout, non-2xx, bad XML),
\* or an XML answer with its rc and lata tags (None: the tag is absent; "": the
\* tag is there and empty).
Responses ==
    {[ok |-> FALSE, rc |-> None, lata |-> None],
     [ok |-> TRUE, rc |-> None, lata |-> None],
     [ok |-> TRUE, rc |-> Txt(" Chicago  Zone 1 "), lata |-> Txt("358")],
     [ok |-> TRUE, rc |-> Txt("Nowhere"), lata |-> Txt("")],
     [ok |-> TRUE, rc |-> Txt(" "), lata |-> Txt("358")]}

\* The Subscriber loop is at a row and not waiting on a call.
at_row == pc = "subs" /\ pending = NoCall /\ sub_i < user_df_len(wb)

\* The reads of lines 250-258 all fall inside the frame.
row_in_frame == user_df_ncols(wb) > COL_LCC15

\* The row at sub_i passes the eligibility filter, and key is its NPA-NXX.
eligible ==
    ~subscriber_skipped(iloc(wb.users, na_values, sub_i, COL_PHONE),
                        iloc(wb.users, na_values, sub_i, COL_TEMPLATE))

key_at_row == npanxx_from_number(str(iloc(wb.users, na_values, sub_i, COL_PHONE)))

\* The rest of a Subscriber iteration once the lookup result is known: lcc1 from
\* the engineering table, then the record.  An exception escaping
\* eng_value_for_rate_center ends the script.
FinishSubscriber(result) ==
    LET lcc1 == IF truthy(result[1])
                THEN eng_value_for_rate_center(read_excel_eng(wb.eng, na_values), result[1])
                ELSE Ret("")
    IN  IF lcc1.exc
        THEN /\ pc' = "crashed"
             /\ raised' = "AttributeError"
             /\ UNCHANGED <<sub_i, subs>>
        ELSE /\ subs' = Append(subs, subscriber_record(wb.users, na_values, sub_i, region,
                                                       result, lcc1.value))
             /\ sub_i' = sub_i + 1
             /\ UNCHANGED <<pc, raised>>

\* The first iteration on a sheet narrower than column R: user_df.iloc[i, COL_LCC15]
\* (or an earlier read) raises IndexError, which nothing catches.
SubscriberIndexError ==
    /\ at_row
    /\ ~row_in_frame
    /\ pc' = "crashed"
    /\ raised' = "IndexError"
    /\ UNCHANGED <<input, err, lookups, built>>

\* One iteration that hits `continue`.
SubscriberSkip ==
    /\ at_row
    /\ row_in_frame
    /\ ~eligible
    /\ sub_i' = sub_i + 1
    /\ UNCHANGED <<input, pc, err, raised, lookups, region, customer_name, numbers,
                   departments, subs, devices, intercoms, mlhgs, pilots, output>>

\* One iteration whose phone has no NPA-NXX: no lookup at all.
SubscriberNoPrefix ==
    /\ at_row
    /\ row_in_frame
    /\ eligible
    /\ key_at_row = <<"", "">>
    /\ FinishSubscriber(<<None, None>>)
    /\ UNCHANGED <<input, err, lookups, region, customer_name, numbers, departments,
                   devices, intercoms, mlhgs, pilots, output>>

\* One iteration whose (npa, nxx) is in the cache: the cached value is returned.
SubscriberCacheHit ==
    /\ at_row
    /\ row_in_frame
    /\ eligible
    /\ key_at_row # <<"", "">>
    /\ key_at_row \in DOMAIN cache
    /\ FinishSubscriber(cache[key_at_row])
    /\ UNCHANGED <<input, err, lookups, region, customer_name, numbers, departments,
                   devices, intercoms, mlhgs, pilots, output>>

\* One iteration whose (npa, nxx) is not cached: the function body runs and
\* issues the HTTP call; the run then waits for the answer.
SubscriberLookupCall ==
    /\ at_row
    /\ row_in_frame
    /\ eligible
    /\ key_at_row # <<"", "">>
    /\ key_at_row \notin DOMAIN cache
    /\ pending' = key_at_row
    /\ net_calls' = Append(net_calls, [npa |-> key_at_row[1], nxx |-> key_at_row[2],
                                       row |-> sub_i, outcome |-> "pending"])
    /\ UNCHANGED <<input, pc, err, raised, cache, stale, built>>

\* A cache that keeps no entry for a lookup that gave nothing.
cache_put_hits_only(c, key, value) ==
    IF value = <<None, None>> THEN c
    ELSE [k \in DOMAIN c \cup {key} |-> IF k = key THEN value ELSE c[k]]

\* The cache after the decorated function returned value for key.
cache_put(c, key, value) ==
    [k \in DOMAIN c \cup {key} |-> IF k = key THEN value ELSE c[k]]

\* The cache after the entry of key expired.
cache_drop(c, key) ==
    IF DOMAIN c = {key} THEN <<>> ELSE [k \in DOMAIN c \ {key} |-> c[k]]

\* The call returns (or fails): the function's return value is cached and the
\* iteration goes on with it.
SubscriberLookupReturn ==
    /\ pc = "subs"
    /\ pending # NoCall
    /\ \E resp \in Responses :
          LET result == lookup_rc_lata(pending[1], pending[2], resp)
          IN  /\ net_calls' = [net_calls EXCEPT ![Len(net_calls)].outcome =
                                   IF resp.ok THEN "answered" ELSE "failed"]
              /\ cache' = cache_put(cache, pending, result)
              /\ FinishSubscriber(result)
    /\ pending' = NoCall
    /\ UNCHANGED <<input, err, stale, region, customer_name, numbers, departments,
                   devices, intercoms, mlhgs, pilots, output>>

\* The prefixes this workbook's rows can ask for.  The store holds entries under
\* other keys too; this run never reads them, and they are not kept here.
run_keys ==
    {npanxx_from_number(str(iloc(wb.users, na_values, i, COL_PHONE))) : i \in DOMAIN wb.users}
    \ {<<"", "">>}

\* What a call of lookup_rc_lata can leave in the cache.
cached_values == {lookup_rc_lata("312", "555", resp) : resp \in Responses}

\* Another session of the app (or a rerun) looks a prefix up and caches the
\* result.  A key this run is computing is locked by st.cache_data and cannot be
\* written by others.  The run reads the cache only in its Subscriber loop: a
\* write before the loop is a cache the run finds (Init), a write after it is
\* never seen, so the step is taken while the loop runs.
OtherSessionStore ==
    /\ pc = "subs"
    /\ sub_i < user_df_len(wb)
    /\ \E key \in run_keys \ (DOMAIN cache \cup {pending}), value \in cached_values :
          cache' = cache_put(cache, key, value)
    /\ UNCHANGED <<input, pc, err, raised, stale, pending, net_calls, built>>

\* An entry written more than ttl = 24 h ago expires: only entries of earlier
\* runs are that old.
CacheExpire ==
    /\ pc = "subs"
    /\ sub_i < user_df_len(wb)
    /\ \E key \in stale :
          /\ cache' = cache_drop(cache, key)
          /\ stale' = stale \ {key}
    /\ UNCHANGED <<input, pc, err, raised, pending, net_calls, built>>

\* The Managed Device section, once the Subscriber loop is over.
ManagedDevices ==
    /\ pc = "subs"
    /\ pending = NoCall
    /\ sub_i >= user_df_len(wb)
    /\ IF loop_raises(wb, {COL_PHONE, COL_MAC})
       THEN /\ pc' = "crashed"
            /\ raised' = "IndexError"
            /\ UNCHANGED devices
       ELSE /\ devices' = managed_devices(wb.users, na_values, START_ROW, user_df_len(wb))
            /\ pc' = "intercom"
            /\ UNCHANGED raised
    /\ UNCHANGED <<input, err, lookups, region, customer_name, numbers, departments,
                   sub_i, subs, intercoms, mlhgs, pilots, output>>

\* The Intercom Code Range section.
IntercomRanges ==
    /\ pc = "intercom"
    /\ IF loop_raises(wb, {COL_PHONE, COL_EXT})
       THEN /\ pc' = "crashed"
            /\ raised' = "IndexError"
            /\ UNCHANGED intercoms
       ELSE /\ intercoms' = intercom_ranges(wb.users, na_values, START_ROW, user_df_len(wb))
            /\ pc' = "mlhg"
            /\ UNCHANGED raised
    /\ UNCHANGED <<input, err, lookups, region, customer_name, numbers, departments,
                   sub_i, subs, devices, mlhgs, pilots, output>>

\* The MLHG section.  Its member loop runs for every named Call flow row.
MLHGs ==
    /\ pc = "mlhg"
    /\ IF /\ \E r \in MLHG_FIRST_ROW..MLHG_LAST_ROW : truthy(hunt_row(wb.hunts, r).B)
          /\ loop_raises(wb, {COL_MLHG, COL_PHONE})
       THEN /\ pc' = "crashed"
            /\ raised' = "IndexError"
            /\ UNCHANGED mlhgs
       ELSE /\ mlhgs' = mlhg_records(wb.users, na_values, wb.hunts, MLHG_FIRST_ROW,
                                     user_df_len(wb))
            /\ pc' = "pilot"
            /\ UNCHANGED raised
    /\ UNCHANGED <<input, err, lookups, region, customer_name, numbers, departments,
                   sub_i, subs, devices, intercoms, pilots, output>>

\* The MLHG Pilot section.
MLHGPilots ==
    /\ pc = "pilot"
    /\ pilots' = pilot_records(wb.hunts, region, MLHG_FIRST_ROW)
    /\ pc' = "write"
    /\ UNCHANGED <<input, err, raised, lookups, region, customer_name, numbers,
                   departments, sub_i, subs, devices, intercoms, mlhgs, output>>

\* The sections of the combined CSV, in the order they are written.
combined(bg, nums, depts, s, d, i, m, p) ==
    << [title |-> "Business Group", rows |-> <<bg>>],
       [title |-> "Business Group Number Block", rows |-> nums],
       [title |-> "Department", rows |-> depts],
       [title |-> "Subscriber", rows |-> s],
       [title |-> "Managed Device", rows |-> d],
       [title |-> "Intercom Code Range", rows |-> i],
       [title |-> "MLHG", rows |-> m],
       [title |-> "MLHG Pilot Number", rows |-> p] >>

\* writer.writerows(bg_rows); writer.writerow([]); writer.writerows(sub_rows)
WriteCombined ==
    /\ pc = "write"
    /\ output' = combined([customer |-> customer_name, template |-> region \o " BG"],
                          numbers, departments, subs, devices, intercoms, mlhgs, pilots)
    /\ pc' = "done"
    /\ UNCHANGED <<input, err, raised, lookups, region, customer_name, numbers,
                   departments, sub_i, subs, devices, intercoms, mlhgs, pilots>>

Next ==
    \/ ResolveSheets
    \/ SheetNotFound
    \/ ReadContext
    \/ BuildBG
    \/ SubscriberIndexError
    \/ SubscriberSkip
    \/ SubscriberNoPrefix
    \/ SubscriberCacheHit
    \/ SubscriberLookupCall
    \/ SubscriberLookupReturn
    \/ OtherSessionStore
    \/ CacheExpire
    \/ ManagedDevices
    \/ IntercomRanges
    \/ MLHGs
    \/ MLHGPilots
    \/ WriteCombined

\* ------------------------------------------------------------- the inputs

\* Bounds of the workbooks explored.
MaxUsers == 2
MaxHunts == 2
MaxEngRows == 2

SeqsUpTo(S, n) == UNION {[1..k -> S] : k \in 0..n}

\* The user rows seq placed from sheet row 9 (index START_ROW) down.
users_at(seq) == [i \in START_ROW..(START_ROW + Len(seq) - 1) |-> seq[i - START_ROW + 1]]

\* The hunt-group rows seq placed from Call flow row 17 down.
hunts_at(seq) ==
    [r \in MLHG_FIRST_ROW..(MLHG_FIRST_ROW + Len(seq) - 1) |-> seq[r - MLHG_FIRST_ROW + 1]]

\* The "Engineering" sheet with the region cell c4 and the rate-centre table
\* (columns N and O) placed from row 1 down.
eng_at(c4, table) ==
    [r \in (1..Len(table)) \cup (IF c4 = None THEN {} ELSE {C4_ROW}) |->
        [C |-> IF r = C4_ROW THEN c4 ELSE None,
         N |-> IF r <= Len(table) THEN table[r].N ELSE None,
         O |-> IF r <= Len(table) THEN table[r].O ELSE None]]

\* A user row; its account type and department go with its name.
UserRow(name, phone, template, mac, ext, mlhg) ==
    [name |-> name, phone |-> phone, ext |-> ext,
     account_type |-> IF name = Txt("Jane Doe") THEN Txt("Location Admin") ELSE name,
     department |-> IF name = Txt("Jane Doe") THEN Txt("Sales") ELSE name,
     template |-> template, mac |-> mac, mlhg |-> mlhg, lcc15 |-> None]

HuntRow(name, dist, pilot, vm) == [B |-> name, C |-> dist, D |-> pilot, H |-> vm]

Jane(phone) ==
    UserRow(Txt("Jane Doe"), phone, Txt("UCaaS|Link Standard"), None, None, None)

DefaultSheets == <<"User details", "Engineering", "Call flow">>

DefaultTable ==
    << [O |-> Txt("Rate Centre"), N |-> Txt("LCC")],
       [O |-> Txt("CHICAGO ZONE 1"), N |-> Txt("LCC7")] >>

DefaultEng == eng_at(Txt("CH"), DefaultTable)

\* The title row of the "User details" template runs to column R.
DefaultWidth == COL_LCC15 + 1

\* A workbook: its sheet names, B3 and the width of the title row of "User
\* details", the user rows, the "Call flow" rows and the "Engineering" rows.
Workbook(sheetnames, head_width, users, hunts, eng) ==
    [sheetnames |-> sheetnames, customer |-> Txt("Acme"), head_width |-> head_width,
     users |-> users, hunts |-> hunts, eng |-> eng]

\* Workbooks that differ in their sheet names.
SheetLists ==
    { DefaultSheets,
      <<"Notes", "user DETAILS", " engineering ", "CALLFLOW">>,
      <<"User\rdetails", "Engi\fneering", "Call flow">>,
      <<"User details", "CommandLink", "Call flow">>,
      <<"User details", "CommandLink", "Engineering", "Call flow">>,
      <<"Engineering", "Call flow">>,
      <<"User details", "Call flow">>,
      <<"User details", "Engineering">>,
      <<"User_details", "Engineering", "Call flow">>,
      <<>> }

SheetInputs ==
    { Workbook(names, DefaultWidth, users_at(<<Jane(Txt("3125551234"))>>), <<>>, DefaultEng)
        : names \in SheetLists }

\* Workbooks with one user row: every template label, with and without a name,
\* a phone, a device and an extension, under several region cells.
KnownLabels == {mapping[k][1] : k \in 1..Len(mapping)}

Labels ==
    {None}
    \cup {Txt(k) : k \in KnownLabels}
    \cup {Txt("  " \o k \o " ") : k \in KnownLabels}
    \cup {Txt(lower(k)) : k \in KnownLabels}
    \cup {Txt("None"), Txt(" Reserve Number"), Txt("None | Reserve Number"), Txt("none"),
          Txt("None\r"), Txt("\fUCaaS|Link Lite"), Txt("N/A"),
          Txt("Reserve  Number"), Txt("UCaaS|Link  Lite"), Txt("UCaaS | Link Lite"),
          Txt("UCaaS|Link Gold"), Txt("_STD")}

TemplateInputs ==
    { Workbook(DefaultSheets, DefaultWidth,
               users_at(<<UserRow(name, phone, label, dev[1], dev[2], None)>>),
               <<>>, eng_at(c4, DefaultTable))
        : c4 \in {Txt("CH"), Txt(" LV "), None},
          name \in {None, Txt("Jane Doe"), Txt("N/A")},
          phone \in {None, Txt("5551")},
          label \in Labels,
          dev \in {<<None, None>>, <<Txt("00AA11"), Txt("101")>>, <<Txt("  "), Txt(" ")>>} }

\* Workbooks whose user rows share or differ in their NPA-NXX.
LookupPhones ==
    {Txt("3125551234"), Txt("(312) 555-9999"), Txt("1-212-555-0000"), Txt("12345")}

LookupInputs ==
    { Workbook(DefaultSheets, DefaultWidth, users_at([k \in DOMAIN ps |-> Jane(ps[k])]),
               <<>>, DefaultEng)
        : ps \in SeqsUpTo(LookupPhones, MaxUsers) }

\* Workbooks that differ in their engineering table.
EngCells ==
    { [O |-> o, N |-> n]
        : o \in {None, Txt("CHICAGO ZONE 1"), Txt(" chicago zone  1"), Txt("NOWHERE")},
          n \in {None, Txt("NAN"), Txt("LCC7")} }

EngInputs ==
    { Workbook(DefaultSheets, DefaultWidth, users_at(<<Jane(Txt("3125551234"))>>), <<>>,
               eng_at(c4, table))
        : c4 \in {None, Txt("CH")}, table \in SeqsUpTo(EngCells, MaxEngRows) }

\* Workbooks that differ in the two number pools.
NumberInputs ==
    { Workbook(DefaultSheets, DefaultWidth,
               users_at([k \in DOMAIN ps |-> Jane(ps[k])]),
               hunts_at([k \in DOMAIN ds |-> HuntRow(Txt("Sales"), Txt("Ring All"), ds[k], Txt("Yes"))]),
               DefaultEng)
        : ps \in SeqsUpTo({None, Txt("5551"), Txt(" 5551 "), Txt("N/A"), Txt("  ")}, MaxUsers),
          ds \in SeqsUpTo({None, Txt("5551"), Txt("5553 ")}, MaxHunts) }

\* Workbooks that differ in hunt groups and memberships.
HuntUsers ==
    { UserRow(Txt("Jane Doe"), pm[1], Txt("UCaaS|Link Standard"), None, None, pm[2])
        : pm \in { <<Txt("5552"), Txt("Sales")>>, <<Txt("5551"), Txt(" Sales ")>>,
                   <<None, Txt("Sales")>>, <<Txt("5550"), Txt("NA")>> } }

HuntRows ==
    { HuntRow(None, Txt("Ring All"), None, None),
      HuntRow(Txt("Sales"), Txt("  Ring All "), Txt("5559"), Txt(" YES ")),
      HuntRow(Txt("nan"), None, None, None),
      HuntRow(Txt("NA"), Txt("ring all"), Txt("5557"), Txt("No")) }

HuntInputs ==
    { Workbook(DefaultSheets, DefaultWidth, users_at(us), hunts_at(hs), DefaultEng)
        : us \in SeqsUpTo(HuntUsers, MaxUsers), hs \in SeqsUpTo(HuntRows, MaxHunts) }

\* Workbooks whose user rows sit at sheet rows 9, 100 and 101.
LongInputs ==
    { Workbook(DefaultSheets, DefaultWidth,
               [i \in idx |-> Jane(Txt(IF i = START_ROW THEN "5551"
                                       ELSE IF i = POOL_LAST_ROW - 1 THEN "5552" ELSE "5553"))],
               <<>>, DefaultEng)
        : idx \in (SUBSET {START_ROW, POOL_LAST_ROW - 1, POOL_LAST_ROW}) \ {{}} }

\* Workbooks whose "User details" sheet is narrower than the template: the title
\* row ends at column B, M, N or O, and the user row may or may not reach R.
WidthInputs ==
    { Workbook(DefaultSheets, w,
               users_at(<<[Jane(Txt("3125551234")) EXCEPT !.lcc15 = l, !.mlhg = g]>>),
               hunts_at(<<HuntRow(Txt("Sales"), Txt("Ring All"), None, None)>>),
               DefaultEng)
        : w \in {COL_PHONE + 1, COL_TEMPLATE + 1, COL_MAC + 1, COL_MLHG + 1, DefaultWidth},
          l \in {None, Txt(" L15 ")},
          g \in {None, Txt("Sales")} }
    \cup
    \* sheets one column wide: names in column A, no customer name in B3
    { [Workbook(DefaultSheets, w, users_at(us),
                hunts_at(<<HuntRow(Txt("Sales"), Txt("Ring All"), None, None)>>),
                DefaultEng) EXCEPT !.customer = None]
        : w \in {0, COL_NAME + 1},
          us \in {<<>>, <<[BlankRow EXCEPT !.name = Txt("Jane")]>>,
                  <<BlankRow, [BlankRow EXCEPT !.name = Txt("Jane")]>>} }

\* The caches a run can find: any entries under the prefixes of its workbook.
WarmCaches ==
    UNION { IF K = {} THEN {<<>>} ELSE [K -> cached_values] : K \in SUBSET run_keys }

\* The state when the script starts on the uploaded workbook; every entry the
\* cache holds then was written before the run.
Start ==
    /\ stale = DOMAIN cache
    /\ pending = NoCall
    /\ net_calls = <<>>
    /\ pc = "resolve"
    /\ err = NoError
    /\ raised = ""
    /\ region = ""
    /\ customer_name = None
    /\ numbers = <<>>
    /\ departments = <<>>
    /\ sub_i = START_ROW
    /\ subs = <<>>
    /\ devices = <<>>
    /\ intercoms = <<>>
    /\ mlhgs = <<>>
    /\ pilots = <<>>
    /\ output = <<>>

Init ==
    /\ \/ wb \in SheetInputs /\ na_values = STR_NA_VALUES_2 /\ cache = <<>>
       \/ wb \in TemplateInputs /\ na_values \in {STR_NA_VALUES_1, STR_NA_VALUES_2} /\ cache = <<>>
       \/ wb \in LookupInputs /\ na_values = STR_NA_VALUES_2 /\ cache \in WarmCaches
       \/ wb \in EngInputs /\ na_values = STR_NA_VALUES_2 /\ cache = <<>>
       \/ wb \in NumberInputs /\ na_values = STR_NA_VALUES_2 /\ cache = <<>>
       \/ wb \in HuntInputs /\ na_values = STR_NA_VALUES_2 /\ cache = <<>>
       \/ wb \in LongInputs /\ na_values = STR_NA_VALUES_2 /\ cache = <<>>
       \/ wb \in WidthInputs /\ na_values = STR_NA_VALUES_2 /\ cache = <<>>
    /\ Start

Spec == Init /\ [][Next]_vars

\* The runs on workbooks whose phone cells hold a number with no blank around it.
InitPlainNumbers ==
    /\ \/ wb \in SheetInputs /\ na_values = STR_NA_VALUES_2 /\ cache = <<>>
       \/ wb \in LookupInputs /\ na_values = STR_NA_VALUES_2 /\ cache \in WarmCaches
       \/ wb \in LongInputs /\ na_values = STR_NA_VALUES_2 /\ cache = <<>>
       \/ wb \in WidthInputs /\ na_values = STR_NA_VALUES_2 /\ cache = <<>>
    /\ Start

SpecPlainNumbers == InitPlainNumbers /\ [][Next]_vars

\* ----------------------------------------------------------------- claims

SeqSet(seq) == {seq[k] : k \in DOMAIN seq}

UserIdx == DOMAIN wb.users

\* The sheet list holds a sheet whose lower-cased, whitespace-free name is n.
HasSheet(n) == \E k \in DOMAIN wb.sheetnames : _norm(wb.sheetnames[k]) = n

Terminated == pc \in {"aborted", "crashed", "done"}

\* The row is excluded: its phone cell is blank, or its template cell holds one
\* of the three exclusion labels.
Excluded(row) ==
    \/ empty_cell(row.phone)
    \/ /\ row.template.kind = "str"
       /\ strip(row.template.s) \in {"None", "Reserve Number", "None | Reserve Number"}

\* C1: no Subscriber, Managed Device or Intercom Code Range record is built from
\* a user row whose phone is blank or whose trimmed template label is "None",
\* "Reserve Number" or "None | Reserve Number", whatever its MAC and extension.
C1_ExcludedRowEmitsNothing ==
    \A i \in UserIdx :
        Excluded(wb.users[i]) =>
            /\ \A k \in DOMAIN subs : subs[k].src # i
            /\ \A k \in DOMAIN devices : devices[k].src # i
            /\ \A k \in DOMAIN intercoms : intercoms[k].src # i

\* The NPA-NXX of a Subscriber record's phone.
PrefixOf(phone) == npanxx_from_number(phone)

CallKey(c) == <<c.npa, c.nxx>>

\* C2: a rate-centre lookup whose network call fails does not end the run and
\* gives its subscriber lcc1 = lcc2 = ""; the failed outcome is cached, so that
\* every later subscriber of that prefix gets the same without a further call;
\* no prefix is requested twice in a run.
C2_FailedLookupCachedOnce ==
    /\ \A a, b \in DOMAIN net_calls : a # b => CallKey(net_calls[a]) # CallKey(net_calls[b])
    /\ \A k \in DOMAIN net_calls :
          LET c == net_calls[k]
          IN  c.outcome = "failed" =>
                /\ CallKey(c) \in DOMAIN cache
                /\ cache[CallKey(c)] = <<None, None>>
                /\ \E s \in DOMAIN subs : subs[s].src = c.row
                /\ \A s \in DOMAIN subs :
                      (subs[s].src >= c.row /\ PrefixOf(subs[s].phone) = CallKey(c))
                      => (subs[s].lcc1 = "" /\ subs[s].lcc2 = "")

\* Two subscribers of one prefix, served by a single call that failed.
C2_Witness ==
    /\ Len(net_calls) = 1
    /\ net_calls[1].outcome = "failed"
    /\ \E a, b \in DOMAIN subs :
          /\ subs[a].src # subs[b].src
          /\ PrefixOf(subs[a].phone) = CallKey(net_calls[1])
          /\ PrefixOf(subs[b].phone) = CallKey(net_calls[1])

\* The template table of the glossary: label -> suffix.
TemplateTable ==
    { <<"UCaaS|Link Basic Auto-Attendant", "_AA_Easy">>,
      <<"UCaaS|Link Premium Auto-Attendant", "_AA_Premium">>,
      <<"UCaaS|Link Lite", "_Lite">>,
      <<"UCaaS|Link Standard", "_STD">>,
      <<"UCaaS|Link Complete", "_Complete">>,
      <<"UCaaS|Link Complete (HIPPA)", "Complete_HIPPA">>,
      <<"UCaaS|Link Complete (No Voicemail)", "_Complete_NoVM">>,
      <<"UCaaS|Link Complete ContactCenter Agent", "_Complete">>,
      <<"UCaaS|Link Complete ContactCenter Manager", "_Complete">> }

\* C3: the template of a Subscriber record is region + the tabulated suffix when
\* the row's trimmed label is exactly one of the 9 table keys, and "" for every
\* other label (missing, or differing in case or inner spacing).
C3_TemplateExactMatchOrEmpty ==
    \A k \in DOMAIN subs :
        LET label == wb.users[subs[k].src].template
        IN  IF label.kind = "str" /\ \E e \in TemplateTable : e[1] = strip(label.s)
            THEN \E e \in TemplateTable :
                    e[1] = strip(label.s) /\ subs[k].template = region \o e[2]
            ELSE subs[k].template = ""

\* A padded table key is matched, and its literal (not region-prefixed) suffix kept.
C3_Witness ==
    /\ region = "LV"
    /\ \E k \in DOMAIN subs :
          /\ wb.users[subs[k].src].template = Txt("  UCaaS|Link Complete (HIPPA) ")
          /\ subs[k].template = "LVComplete_HIPPA"

\* C4: a Subscriber record whose template is region_AA_Easy or region_AA_Premium
\* has blank line-state-monitoring, calling-name-delivery and intra-BG fields;
\* every other one has "TRUE", the row's name as the table reader gives it
\* (blank if missing) and "TRUE".
C4_AutoAttendantBlanks ==
    \A k \in DOMAIN subs :
        LET s  == subs[k]
            nm == iloc(wb.users, na_values, s.src, COL_NAME)
        IN  IF s.template = region \o "_AA_Easy" \/ s.template = region \o "_AA_Premium"
            THEN /\ s.line_state_monitor = ""
                 /\ s.calling_name_delivery = ""
                 /\ s.intra_bg_calls = ""
            ELSE /\ s.line_state_monitor = "TRUE"
                 /\ s.calling_name_delivery = (IF nm.kind = "str" THEN nm.s ELSE "")
                 /\ s.intra_bg_calls = "TRUE"

\* A named row with the premium auto-attendant plan, its three fields blank.
C4_Witness ==
    \E k \in DOMAIN subs :
        /\ subs[k].template = region \o "_AA_Premium"
        /\ wb.users[subs[k].src].name = Txt("Jane Doe")
        /\ subs[k].name_cfs = "Jane Doe"
        /\ subs[k].calling_name_delivery = ""

\* The cells of the two number pools that hold a non-empty trimmed value:
\* <<0, i>> is the user row at index i (B9:B100), <<1, r>> the Call flow row r.
PoolCells ==
    { <<0, i>> : i \in {j \in UserIdx : /\ j >= START_ROW
                                        /\ j < POOL_LAST_ROW
                                        /\ wb.users[j].phone.kind = "str"
                                        /\ strip(wb.users[j].phone.s) # ""} }
    \cup
    { <<1, r>> : r \in {q \in DOMAIN wb.hunts : /\ q >= MLHG_FIRST_ROW
                                                /\ q <= MLHG_LAST_ROW
                                                /\ wb.hunts[q].D.kind = "str"
                                                /\ strip(wb.hunts[q].D.s) # ""} }

PoolValue(c) == IF c[1] = 0 THEN strip(wb.users[c[2]].phone.s) ELSE strip(wb.hunts[c[2]].D.s)

\* Cell a comes before cell b: the subscriber pool first, then row order.
PoolBefore(a, b) == a[1] < b[1] \/ (a[1] = b[1] /\ a[2] < b[2])

FirstCell(v) ==
    CHOOSE c \in PoolCells :
        PoolValue(c) = v /\ \A d \in PoolCells : PoolValue(d) = v => (d = c \/ PoolBefore(c, d))

\* C5: the Number Block records are the distinct non-empty trimmed values of the
\* two pools, each exactly once, in order of first occurrence.
C5_NumberBlocksDistinctInOrder ==
    pc \in {"subs", "intercom", "mlhg", "pilot", "write", "done", "crashed"} =>
        /\ SeqSet(numbers) = {PoolValue(c) : c \in PoolCells}
        /\ \A a, b \in DOMAIN numbers : a # b => numbers[a] # numbers[b]
        /\ \A a, b \in DOMAIN numbers :
              a < b => PoolBefore(FirstCell(numbers[a]), FirstCell(numbers[b]))
        /\ pc = "done" => output[2].rows = numbers

\* A number held by both pools and repeated in the first, emitted once.
C5_Witness ==
    /\ pc = "done"
    /\ output[2].rows = <<"5551", "5553">>
    /\ \E i \in UserIdx, r \in DOMAIN wb.hunts :
          /\ wb.users[i].phone = Txt(" 5551 ")
          /\ wb.hunts[r].D = Txt("5551")
          /\ i > START_ROW

\* The user rows that belong to the group named name: trimmed label equal to the
\* trimmed name, phone present.
GroupRows(name) ==
    { i \in UserIdx : /\ wb.users[i].mlhg.kind = "str"
                      /\ strip(wb.users[i].mlhg.s) = strip(name)
                      /\ ~empty_cell(wb.users[i].phone) }

\* The member field of the rows M, lowest row first.
RECURSIVE MemberField(_)
MemberField(M) ==
    IF M = {} THEN ""
    ELSE LET i == CHOOSE x \in M : \A y \in M : x <= y
         IN  "{'" \o wb.users[i].phone.s \o "';'FALSE'}"
             \o (IF M \ {i} = {} THEN "" ELSE ";" \o MemberField(M \ {i}))

NamedHuntRows ==
    { r \in DOMAIN wb.hunts : /\ r >= MLHG_FIRST_ROW
                              /\ r <= MLHG_LAST_ROW
                              /\ wb.hunts[r].B.kind = "str"
                              /\ wb.hunts[r].B.s # "" }

\* C6: every hunt-group row with a name yields one MLHG record whose members are
\* the {'<phone>';'FALSE'} tokens of the user rows of that group in row order,
\* whose distribution algorithm is the trimmed input with "Ring All" turned into
\* "Ring all", and whose hunt-on-no-answer is "FALSE".
C6_HuntGroupMembersInRowOrder ==
    pc \in {"pilot", "write", "done"} =>
        /\ \A r \in NamedHuntRows : Cardinality({k \in DOMAIN mlhgs : mlhgs[k].src = r}) = 1
        /\ \A k \in DOMAIN mlhgs :
              LET g == mlhgs[k]
                  h == wb.hunts[g.src]
                  d == IF h.C.kind = "str" THEN strip(h.C.s) ELSE ""
              IN  /\ g.src \in NamedHuntRows
                  /\ g.name = h.B.s
                  /\ g.members = MemberField(GroupRows(h.B.s))
                  /\ g.dist_alg = (IF d = "Ring All" THEN "Ring all" ELSE d)
                  /\ g.hunt_on_no_answer = "FALSE"

NothingBuilt ==
    /\ region = ""
    /\ customer_name = None
    /\ numbers = <<>>
    /\ departments = <<>>
    /\ subs = <<>>
    /\ devices = <<>>
    /\ intercoms = <<>>
    /\ mlhgs = <<>>
    /\ pilots = <<>>

SectionTitles ==
    <<"Business Group", "Business Group Number Block", "Department", "Subscriber",
      "Managed Device", "Intercom Code Range", "MLHG", "MLHG Pilot Number">>

FullyBuilt ==
    /\ Len(output) = Len(SectionTitles)
    /\ \A k \in DOMAIN output : output[k].title = SectionTitles[k]

AllSheetsResolve == HasSheet("userdetails") /\ HasSheet("engineering") /\ HasSheet("callflow")

\* C7: a run ends either aborted at sheet resolution (a required sheet is missing;
\* the error lists the actual sheet names; nothing was extracted or built) or
\* completed with the whole output buffer; the buffer never holds only some of
\* the sections.
C7_AbortedOrFullyBuilt ==
    /\ output = <<>> \/ FullyBuilt
    /\ Terminated =>
          IF AllSheetsResolve
          THEN pc = "done" /\ FullyBuilt
          ELSE /\ pc = "aborted"
               /\ err.available = wb.sheetnames
               /\ NothingBuilt
               /\ output = <<>>

NormRc(s) == collapse_ws(upper(strip(s)))

\* The engineering rows whose rate-centre cell (column O) matches rc after
\* normalization.
EngMatches(rc) ==
    { r \in DOMAIN wb.eng : /\ wb.eng[r].O.kind = "str"
                            /\ NormRc(wb.eng[r].O.s) # ""
                            /\ NormRc(wb.eng[r].O.s) = NormRc(rc) }

\* The code-column (N) value of engineering row r, blank when the cell is blank.
EngCode(r) == IF wb.eng[r].N.kind = "str" THEN wb.eng[r].N.s ELSE ""

\* C8: lcc1 derivation never ends the run, whatever the lookup result and the
\* engineering table hold (blank cells included): lcc1 is the code of the first
\* row whose normalized rate centre equals the normalized looked-up name, and
\* blank when there is no lookup result or no such row.
C8_Lcc1NeverAborts ==
    /\ raised # "AttributeError"
    /\ \A k \in DOMAIN subs :
          LET rc == subs[k].rc
          IN  IF rc = "" \/ EngMatches(rc) = {}
              THEN subs[k].lcc1 = ""
              ELSE subs[k].lcc1 = EngCode(CHOOSE r \in EngMatches(rc) :
                                              \A q \in EngMatches(rc) : r <= q)

\* C9: a workbook with "User details", "Call flow" and at least one of
\* "CommandLink" or "Engineering" (by normalized name) is accepted.
C9_CommandLinkOrEngineeringAccepted ==
    (HasSheet("userdetails") /\ HasSheet("callflow")
       /\ (HasSheet("commandlink") \/ HasSheet("engineering")))
    => pc # "aborted"

\* C9 as amended: a workbook is accepted exactly when it has "User details",
\* "Engineering" and "Call flow" (by normalized name), and then its region is the
\* trimmed Engineering!C4; with "CommandLink" but no "Engineering" the run
\* aborts, naming "Engineering" as the missing sheet.
C9_EngineeringRequired ==
    /\ pc = "aborted" =>
          /\ ~AllSheetsResolve
          /\ err.available = wb.sheetnames
          /\ (HasSheet("userdetails") /\ HasSheet("callflow")) => err.wanted = "Engineering"
    /\ pc = "context" => AllSheetsResolve
    /\ pc \notin {"resolve", "context", "aborted"} =>
          region = (IF C4_ROW \in DOMAIN wb.eng /\ wb.eng[C4_ROW].C.kind = "str"
                    THEN strip(wb.eng[C4_ROW].C.s) ELSE "")

\* A workbook with a CommandLink sheet and no Engineering sheet, aborted.
C9_Witness ==
    /\ pc = "aborted"
    /\ HasSheet("userdetails") /\ HasSheet("callflow") /\ HasSheet("commandlink")
    /\ ~HasSheet("engineering")
    /\ err.wanted = "Engineering"

\* C10: in the finished export, the phone number of every Subscriber record is
\* the First Phone Number of exactly one Number Block record.
C10_SubscriberHasNumberBlock ==
    pc = "done" =>
        \A k \in DOMAIN output[4].rows :
            Cardinality({j \in DOMAIN output[2].rows :
                            output[2].rows[j] = output[4].rows[k].phone}) = 1

====
